---- MODULE Spec2Model ----
(***************************************************************************)
(* Model of monitor_packet_loss.py: the PacketLossMonitor object, the read *)
(* loop of run(), the SIGINT handler and the shutdown sequence.            *)
(*                                                                         *)
(* Text is modelled at character level: a line is a sequence of one-       *)
(* character strings, so that `in`, strip(), lower() and re.search() are   *)
(* computed, not assumed.  Floats are modelled exactly: a latency is an    *)
(* integer number of tenths of a millisecond, a percentage or a mean is a  *)
(* fraction [n, d], and a standard deviation is represented by its square  *)
(* (the sample variance) as a fraction.  A fraction with d = 0 stands for  *)
(* the exception the Python expression would raise (ZeroDivisionError,     *)
(* statistics.StatisticsError).                                            *)
(***************************************************************************)
EXTENDS Integers, Sequences, FiniteSets, TLC

VARIABLES
  self,       \* the PacketLossMonitor object
  io,         \* what has been written to the console and to the log file
  pc,         \* the statement of run() the main thread is at
  exc,        \* the exception being handled or propagated ("none" if none)
  exit_code,  \* the exit code of the process once it has ended, else None
  line,       \* run()'s local `line`, stripped
  hour_key,   \* run()'s local `hour_key`
  clock,      \* the hour datetime.now() is in
  hpc,        \* the stack of running signal_handler calls, innermost last
  sigints,    \* SIGINTs delivered so far
  events,     \* history: outcome and latency of every probe line read
  snap,       \* history: the object when the last line was read
  ended,      \* history: what ended the read loop ("running" until then)
  devs,       \* history: lines read that were not plain
  nlines      \* history: lines read

vars == <<self, io, pc, exc, exit_code, line, hour_key, clock, hpc, sigints,
          events, snap, ended, devs, nlines>>

-----------------------------------------------------------------------------
(* Bounds of the model.                                                    *)

\* Reading stops once this many probes have been counted.
MaxSent == 201

\* At most this many lines of a stream differ from the ordinary reply line
\* (or arrive after the hour has changed).
MaxDev == 1

\* Hours are numbered 0 .. MaxHour.
MaxHour == 1

\* Length of the streams of the fine-grained specification SpecSig.
MaxSigLines == 2

\* Number of SIGINTs delivered in one run of SpecSig.
MaxSigints == 1

-----------------------------------------------------------------------------
(* Program constants.                                                      *)

\* The window size: `self.packets_sent % 100 == 0`.
WindowSize == 100

-----------------------------------------------------------------------------
(* Text: literals of the program and the lines the probe may print.        *)

ICMP_SEQ ==
  <<"i","c","m","p","_","s","e","q">>

ICMP_SEQ_EQ ==
  <<"i","c","m","p","_","s","e","q","=">>

TIME_EQ ==
  <<"t","i","m","e","=">>

TIME_SP_EQ ==
  <<"t","i","m","e"," ","=">>

REQUEST_TIMEOUT ==
  <<"R","e","q","u","e","s","t"," ","t","i","m","e","o","u","t">>

TIMEOUT ==
  <<"t","i","m","e","o","u","t">>

TIME ==
  <<"t","i","m","e">>

MS ==
  <<"m","s">>

\* An ordinary reply, 10.0 ms.
ReplyLine ==
  <<"6","4"," ","b","y","t","e","s"," ","f","r","o","m"," ","8",".","8",".","8",".","8",":"," ","i","c","m","p","_","s","e","q","=","1"," ","t","t","l","=","6","4"," ","t","i","m","e","=","1","0",".","0"," ","m","s","\n">>

\* A slower reply, 14.2 ms.
SlowReplyLine ==
  <<"6","4"," ","b","y","t","e","s"," ","f","r","o","m"," ","8",".","8",".","8",".","8",":"," ","i","c","m","p","_","s","e","q","=","3"," ","t","t","l","=","6","4"," ","t","i","m","e","=","1","4",".","2"," ","m","s","\n">>

\* A timeout notice that names the sequence number.
SeqTimeoutLine ==
  <<"R","e","q","u","e","s","t"," ","t","i","m","e","o","u","t"," ","f","o","r"," ","i","c","m","p","_","s","e","q"," ","4","\n">>

\* The banner ping prints first.
HeaderLine ==
  <<"P","I","N","G"," ","8",".","8",".","8",".","8"," ","(","8",".","8",".","8",".","8",")",":"," ","5","6"," ","d","a","t","a"," ","b","y","t","e","s","\n">>

\* An empty line.
BlankLine ==
  <<"\n">>

\* A reply whose time is written `time 14.2 ms`, without `=`.
SpaceTimeLine ==
  <<"6","4"," ","b","y","t","e","s"," ","f","r","o","m"," ","8",".","8",".","8",".","8",":"," ","i","c","m","p","_","s","e","q","=","5"," ","t","t","l","=","6","4"," ","t","i","m","e"," ","1","4",".","2"," ","m","s","\n">>

\* A reply whose time is not a number of the pattern (decimal comma).
CommaTimeLine ==
  <<"6","4"," ","b","y","t","e","s"," ","f","r","o","m"," ","8",".","8",".","8",".","8",":"," ","i","c","m","p","_","s","e","q","=","6"," ","t","t","l","=","6","4"," ","t","i","m","e","=","0",",","5"," ","m","s","\n">>

\* A timeout notice, capitalised, without a sequence number.
CapTimeoutLine ==
  <<"R","e","q","u","e","s","t"," ","T","i","m","e","o","u","t","\n">>

\* A timeout notice in lower case, without a sequence number.
PlainTimeoutLine ==
  <<"p","i","n","g",":"," ","r","e","c","v","m","s","g",":"," ","t","i","m","e","o","u","t","\n">>

RawLines ==
  { ReplyLine, SlowReplyLine, SeqTimeoutLine, HeaderLine, BlankLine,
    SpaceTimeLine, CommaTimeLine, CapTimeoutLine, PlainTimeoutLine }

-----------------------------------------------------------------------------
(* Python's string operations, on sequences of characters.                 *)

Whitespace == {" ", "\n"}

Digits == {"0", "1", "2", "3", "4", "5", "6", "7", "8", "9"}

\* needle in s
In(needle, s) ==
  \E i \in 1..(Len(s) - Len(needle) + 1) :
     SubSeq(s, i, i + Len(needle) - 1) = needle

\* s.strip()
Strip(s) ==
  LET keep == {i \in 1..Len(s) : s[i] \notin Whitespace}
  IN  IF keep = {} THEN <<>>
      ELSE LET lo == CHOOSE i \in keep : \A j \in keep : i <= j
               hi == CHOOSE i \in keep : \A j \in keep : j <= i
           IN  SubSeq(s, lo, hi)

LowerChar(c) ==
  CASE c = "R" -> "r"
    [] c = "T" -> "t"
    [] c = "P" -> "p"
    [] c = "I" -> "i"
    [] c = "N" -> "n"
    [] c = "G" -> "g"
    [] OTHER   -> c

\* s.lower()
Lower(s) == [i \in 1..Len(s) |-> LowerChar(s[i])]

\* The first index >= i of s whose character is not in class (Len(s)+1 if none):
\* where a greedy run of class characters starting at i ends.
RECURSIVE SkipClass(_, _, _)
SkipClass(s, i, class) ==
  IF i <= Len(s) /\ s[i] \in class THEN SkipClass(s, i + 1, class) ELSE i

\* The pattern time[=\s]+(\d+\.?\d*)\s*ms tried at index i of s: <<group 1>> on a
\* match, <<>> otherwise.  The character classes of consecutive parts are
\* disjoint, so the greedy match is the only one.
MatchAt(s, i) ==
  IF ~(i + 3 <= Len(s) /\ SubSeq(s, i, i + 3) = TIME) THEN <<>>
  ELSE
    LET sep  == SkipClass(s, i + 4, {"="} \cup Whitespace)
        int  == SkipClass(s, sep, Digits)
        dot  == IF int <= Len(s) /\ s[int] = "." THEN int + 1 ELSE int
        frac == SkipClass(s, dot, Digits)
        unit == SkipClass(s, frac, Whitespace)
    IN  IF /\ sep > i + 4
           /\ int > sep
           /\ unit + 1 <= Len(s)
           /\ SubSeq(s, unit, unit + 1) = MS
        THEN <<SubSeq(s, sep, frac - 1)>>
        ELSE <<>>

\* re.search(r'time[=\s]+(\d+\.?\d*)\s*ms', s): the leftmost match.
ReSearch(s) ==
  LET hits == {i \in 1..Len(s) : MatchAt(s, i) # <<>>}
  IN  IF hits = {} THEN <<>>
      ELSE MatchAt(s, CHOOSE i \in hits : \A j \in hits : i <= j)

DigitVal(c) ==
  CASE c = "0" -> 0 [] c = "1" -> 1 [] c = "2" -> 2 [] c = "3" -> 3
    [] c = "4" -> 4 [] c = "5" -> 5 [] c = "6" -> 6 [] c = "7" -> 7
    [] c = "8" -> 8 [] c = "9" -> 9

RECURSIVE IntOf(_)
IntOf(ds) ==
  IF ds = <<>> THEN 0
  ELSE 10 * IntOf(SubSeq(ds, 1, Len(ds) - 1)) + DigitVal(ds[Len(ds)])

\* float(g) for g matching \d+\.?\d*, in tenths of a millisecond (the lines of
\* RawLines carry one decimal).
Float(g) ==
  LET int  == SkipClass(g, 1, Digits)
      frac == SubSeq(g, int + 1, Len(g))
  IN  10 * IntOf(SubSeq(g, 1, int - 1))
        + (IF frac = <<>> THEN 0 ELSE DigitVal(frac[1]))

-----------------------------------------------------------------------------
(* Numbers.                                                                *)

None == <<>>

Some(x) == <<x>>

Rat(n, d) == [n |-> n, d |-> d]

Zero == Rat(0, 1)

\* The expression raises instead of yielding a value.
Raises(x) == x.d = 0

RatLess(a, b) == a.n * b.d < b.n * a.d

RatEq(a, b) == a.n * b.d = b.n * a.d

\* The sum of f over the elements lo..hi of xs, by halves (the order of the
\* additions does not change an exact sum).
RECURSIVE SumRange(_, _, _)
SumRange(xs, lo, hi) ==
  IF hi < lo THEN 0
  ELSE IF lo = hi THEN xs[lo]
  ELSE LET mid == (lo + hi) \div 2
       IN  SumRange(xs, lo, mid) + SumRange(xs, mid + 1, hi)

\* sum(xs)
Sum(xs) == SumRange(xs, 1, Len(xs))

\* sum(x * x for x in xs)
SumSq(xs) == SumRange([i \in 1..Len(xs) |-> xs[i] * xs[i]], 1, Len(xs))

\* ((sent - received) / sent) * 100
LossRatio(sent, received) == Rat((sent - received) * 100, sent)

\* sum(xs) / len(xs)
Mean(xs) == Rat(Sum(xs), Len(xs))

\* statistics.stdev(xs), by its square: the sample variance
\* (n * sum(x^2) - sum(x)^2) / (n * (n - 1)); raises with fewer than 2 samples.
Stdev(xs) ==
  LET n == Len(xs)
  IN  Rat(n * SumSq(xs) - Sum(xs) * Sum(xs), n * (n - 1))

-----------------------------------------------------------------------------
(* The PacketLossMonitor object.                                           *)

\* PacketLossMonitor.__init__
NewMonitor ==
  [ packets_sent        |-> 0,
    packets_received    |-> 0,
    window_sent         |-> 0,
    window_received     |-> 0,
    latencies           |-> <<>>,
    window_latencies    |-> <<>>,
    min_latency         |-> None,
    max_latency         |-> None,
    max_window_loss_pct |-> Zero,
    hourly_stats        |-> <<>>,
    log_file            |-> "None" ]

\* The value the defaultdict makes for a missing key.
NewBucket == [sent |-> 0, received |-> 0, latencies |-> <<>>]

\* A slip: a missing key starts the dict afresh.
Touch_afresh(h, k) ==
  IF k \in DOMAIN h THEN h ELSE [x \in {k} |-> NewBucket]

\* The dict after self.hourly_stats[k] is read: a missing key is inserted.
Touch(h, k) ==
  IF k \in DOMAIN h THEN h
  ELSE [x \in DOMAIN h \cup {k} |-> IF x = k THEN NewBucket ELSE h[x]]

\* self.hourly_stats[k][field] = f(self.hourly_stats[k][field])
BumpSent(h, k) == [Touch(h, k) EXCEPT ![k].sent = @ + 1]

BumpReceived(h, k) == [Touch(h, k) EXCEPT ![k].received = @ + 1]

AppendLatency(h, k, x) == [Touch(h, k) EXCEPT ![k].latencies = Append(@, x)]

\* A slip in calculate_loss_percentage: the share received, not the share lost.
calculate_loss_percentage_received(s) ==
  IF s.packets_sent = 0 THEN Zero
  ELSE Rat(s.packets_received * 100, s.packets_sent)

\* calculate_loss_percentage
calculate_loss_percentage(s) ==
  IF s.packets_sent = 0 THEN Zero
  ELSE LossRatio(s.packets_sent, s.packets_received)

\* sorted(d.keys()), as a sequence
RECURSIVE Sorted(_)
Sorted(keys) ==
  IF keys = {} THEN <<>>
  ELSE LET lo == CHOOSE k \in keys : \A j \in keys : k <= j
       IN  <<lo>> \o Sorted(keys \ {lo})

\* One hour of the hourly breakdown of print_summary.
HourSummary(hour, stats) ==
  [ hour     |-> hour,
    sent     |-> stats.sent,
    received |-> stats.received,
    loss     |-> IF stats.sent > 0
                 THEN Rat((stats.sent - stats.received) * 100, stats.sent)
                 ELSE Zero,
    avg_lat  |-> IF stats.latencies # <<>> THEN Mean(stats.latencies) ELSE Zero,
    hour_jitter |-> IF Len(stats.latencies) > 1
                    THEN Stdev(stats.latencies) ELSE Zero ]

\* The hourly breakdown: nothing for an empty dict, else one entry per key in
\* ascending order.
HourlyBreakdown(h) ==
  LET keys == Sorted(DOMAIN h)
  IN  [i \in 1..Len(keys) |-> HourSummary(keys[i], h[keys[i]])]

\* The values print_summary formats.
Summary(s) ==
  [ kind        |-> "summary",
    sent        |-> s.packets_sent,
    received    |-> s.packets_received,
    loss_pct    |-> calculate_loss_percentage(s),
    max_window_loss_pct |-> s.max_window_loss_pct,
    avg_latency |-> IF s.latencies # <<>> THEN Mean(s.latencies) ELSE Zero,
    min_latency |-> s.min_latency,
    max_latency |-> s.max_latency,
    jitter      |-> IF Len(s.latencies) > 1 THEN Stdev(s.latencies) ELSE Zero,
    hourly      |-> HourlyBreakdown(s.hourly_stats) ]

\* An expression of print_summary raises.
SummaryRaises(m) ==
  \/ Raises(m.loss_pct) \/ Raises(m.avg_latency) \/ Raises(m.jitter)
  \/ \E i \in 1..Len(m.hourly) :
        \/ Raises(m.hourly[i].loss)
        \/ Raises(m.hourly[i].avg_lat)
        \/ Raises(m.hourly[i].hour_jitter)

\* A slip: the loop of print_summary reads one bucket past the last key.
ReadBuckets_past(h, keys) == Touch(h, Len(keys))

\* self.hourly_stats after the loop of print_summary has read it.
RECURSIVE ReadBuckets(_, _)
ReadBuckets(h, keys) ==
  IF keys = <<>> THEN h ELSE ReadBuckets(Touch(h, keys[1]), Tail(keys))

\* A slip: the window report computed from the cumulative counters.
WindowReport_cumulative(s) ==
  [ kind            |-> "report",
    first           |-> s.packets_sent - 99,
    last            |-> s.packets_sent,
    window_loss_pct |-> IF s.packets_sent > 0
                        THEN LossRatio(s.packets_sent, s.packets_received)
                        ELSE Zero,
    window_lost     |-> s.packets_sent - s.packets_received,
    window_sent     |-> s.packets_sent,
    window_avg_latency |-> IF s.latencies # <<>> THEN Mean(s.latencies) ELSE Zero,
    window_jitter   |-> IF Len(s.latencies) > 1 THEN Stdev(s.latencies) ELSE Zero ]

\* A slip: the window report without the guards of lines 163, 167 and 168.
WindowReport_unguarded(s) ==
  [ kind            |-> "report",
    first           |-> s.packets_sent - 99,
    last            |-> s.packets_sent,
    window_loss_pct |-> LossRatio(s.window_sent, s.window_received),
    window_lost     |-> s.window_sent - s.window_received,
    window_sent     |-> s.window_sent,
    window_avg_latency |-> Mean(s.window_latencies),
    window_jitter   |-> Stdev(s.window_latencies) ]

\* The values of the periodic window report.
WindowReport(s) ==
  [ kind            |-> "report",
    first           |-> s.packets_sent - 99,
    last            |-> s.packets_sent,
    window_loss_pct |-> IF s.window_sent > 0
                        THEN LossRatio(s.window_sent, s.window_received)
                        ELSE Zero,
    window_lost     |-> s.window_sent - s.window_received,
    window_sent     |-> s.window_sent,
    window_avg_latency |-> IF s.window_latencies # <<>>
                           THEN Mean(s.window_latencies) ELSE Zero,
    window_jitter   |-> IF Len(s.window_latencies) > 1
                        THEN Stdev(s.window_latencies) ELSE Zero ]

ReportRaises(r) ==
  Raises(r.window_loss_pct) \/ Raises(r.window_avg_latency) \/ Raises(r.window_jitter)

-----------------------------------------------------------------------------
(* Output.  The console and the log file are kept as the sequences of the  *)
(* window reports, error notices and summaries written to them; the header *)
(* and the timestamped probe lines are written the same way but not kept.  *)

NewIO == [console |-> <<>>, file |-> <<>>, bad_writes |-> 0]

Emit(stream, entry) ==
  IF entry.kind \in {"report", "error", "summary"} THEN Append(stream, entry)
  ELSE stream

\* print(entry), then `if self.log_file:` write and flush.  A file object is
\* true whether open or closed; writing to a closed file raises ValueError.
\* Returns the streams and the exception raised ("none" if none).
Output(s, o, entry) ==
  LET printed == [o EXCEPT !.console = Emit(@, entry)]
  IN  CASE s.log_file = "None"   -> [io |-> printed, raise |-> "none"]
        [] s.log_file = "closed" ->
             [io |-> [printed EXCEPT !.bad_writes = @ + 1], raise |-> "ValueError"]
        [] OTHER ->
             [io |-> [printed EXCEPT !.file = Emit(@, entry)], raise |-> "none"]

\* log(message)
Log(s, o, entry) == Output(s, o, entry)

\* print_summary: the object and the streams after the call, and the exception
\* it raised.
PrintSummary(s, o) ==
  LET m   == Summary(s)
      s2  == [s EXCEPT !.hourly_stats = ReadBuckets(@, Sorted(DOMAIN @))]
  IN  IF SummaryRaises(m)
      THEN [self |-> s, io |-> o, raise |-> "ArithmeticError"]
      ELSE LET w == Output(s2, o, m)
           IN  [self |-> s2, io |-> w.io, raise |-> w.raise]

-----------------------------------------------------------------------------
(* run(): the statements of the read loop, the except clause and the       *)
(* finally block.  A configuration c holds the object, the streams, the    *)
(* position of the main thread (a statement is named by its line), the     *)
(* exception being handled or propagated and the exit code of the process. *)

\* 'icmp_seq' in line or 'icmp_seq=' in line
IsIcmpLine(ln) == In(ICMP_SEQ, ln) \/ In(ICMP_SEQ_EQ, ln)

\* 'time=' in line or 'time =' in line
HasTime(ln) == In(TIME_EQ, ln) \/ In(TIME_SP_EQ, ln)

\* A slip: `else` in place of the elif of line 156.
IsTimeoutLine_else(ln) == TRUE

\* 'Request timeout' in line or 'timeout' in line.lower()
IsTimeoutLine(ln) == In(REQUEST_TIMEOUT, ln) \/ In(TIMEOUT, Lower(ln))

\* time_match, and latency = float(time_match.group(1)) when it is a match.
TimeMatch(ln) == ReSearch(ln)

Latency(ln) == Float(TimeMatch(ln)[1])

\* The lines run() can see: line.strip() of what ping prints.
Lines == {Strip(raw) : raw \in RawLines}

\* What the conditions of run() yield for each line, computed once.
ParseTable ==
  { [ ln      |-> ln,
      icmp    |-> IsIcmpLine(ln),
      time    |-> HasTime(ln),
      timeout |-> IsTimeoutLine(ln),
      match   |-> TimeMatch(ln) # None,
      latency |-> IF TimeMatch(ln) # None THEN Latency(ln) ELSE 0 ] : ln \in Lines }

Parse(ln) == CHOOSE p \in ParseTable : p.ln = ln


\* A slip: the report is due every half window.
WindowDue_half(s) == s.packets_sent > 0 /\ s.packets_sent % (WindowSize \div 2) = 0

\* A slip: the report is due one probe late.
WindowDue_late(s) == s.packets_sent > 0 /\ s.packets_sent % (WindowSize + 1) = 0

\* self.packets_sent > 0 and self.packets_sent % 100 == 0
WindowDue(s) == s.packets_sent > 0 /\ s.packets_sent % WindowSize = 0

\* The statements inside the try block.
TryLabels ==
  { "L120", "L132", "L133", "L134", "L135", "L137", "L138", "L139", "L140",
    "L143", "L146", "L147", "L148", "L151", "L153", "L156", "L157", "L158",
    "L159", "L162", "L163", "L165", "L167", "L177", "L178", "L179" }

\* The statements of the loop body after the line has been read and logged.
BodyLabels == TryLabels \ {"L120"}

FinallyLabels == {"L184", "L185", "L186"}

\* The exceptions `except Exception` catches.
Caught == {"ValueError", "ArithmeticError", "UnicodeDecodeError"}

\* The exit code of a process ended by exception e.
ExitCodeOf(e) == IF e = "SystemExit" THEN 0 ELSE 1

\* Exception e raised at (or propagated into) the statement c.pc of run().
Throw(c, e) ==
  CASE c.pc \in TryLabels /\ e \in Caught -> [c EXCEPT !.pc = "L182", !.exc = e]
    [] c.pc \in TryLabels \cup {"L182"}   -> [c EXCEPT !.pc = "L184", !.exc = e]
    [] OTHER -> [c EXCEPT !.pc = "done", !.exc = e,
                          !.exit_code = Some(ExitCodeOf(e))]

Goto(c, s, l) == [c EXCEPT !.self = s, !.pc = l]

\* min_latency after `if self.min_latency is None or latency < self.min_latency`
NewMin(cur, x) == IF cur = None \/ x < cur[1] THEN Some(x) ELSE cur

\* max_latency after `if self.max_latency is None or latency > self.max_latency`
NewMax(cur, x) == IF cur = None \/ x > cur[1] THEN Some(x) ELSE cur

\* A slip: the latest window's loss is stored without the comparison.
NewMaxLoss_latest(cur, pct) == pct

\* max_window_loss_pct after `if window_loss_pct > self.max_window_loss_pct`
NewMaxLoss(cur, pct) == IF RatLess(cur, pct) THEN pct ELSE cur

\* Lines 167-174 of the periodic report: the average and the jitter are
\* computed and the report is logged.
LogWindowReport(c) ==
  LET r == WindowReport(c.self)
  IN  IF ReportRaises(r) THEN Throw(c, "ArithmeticError")
      ELSE LET w == Log(c.self, c.io, r)
           IN  IF w.raise # "none" THEN Throw([c EXCEPT !.io = w.io], w.raise)
               ELSE [c EXCEPT !.io = w.io, !.pc = "L177"]

\* The except clause: self.log(f"\nError: {e}").
ExceptClause(c) ==
  LET w == Log(c.self, c.io, [kind |-> "error", what |-> c.exc])
  IN  IF w.raise # "none" THEN Throw([c EXCEPT !.io = w.io], w.raise)
      ELSE [c EXCEPT !.io = w.io, !.exc = "none", !.pc = "L184"]

\* A slip: a finally block that closes the log without printing the summary.
FinallySummary_skipped(c) == [c EXCEPT !.pc = "L186"]

\* self.print_summary() in the finally block.
FinallySummary(c) ==
  LET w == PrintSummary(c.self, c.io)
      d == [c EXCEPT !.self = w.self, !.io = w.io]
  IN  IF w.raise # "none" THEN Throw(d, w.raise) ELSE [d EXCEPT !.pc = "L186"]

\* `if self.log_file: self.log_file.close()`
CloseLog(s) == IF s.log_file # "None" THEN [s EXCEPT !.log_file = "closed"] ELSE s

\* The end of the finally block: the log is closed, then the pending exception
\* (if any) goes on, else run() returns and the script ends.
FinallyClose(c) ==
  LET d == [c EXCEPT !.self = CloseLog(@)]
  IN  IF c.exc # "none" THEN Throw(d, c.exc)
      ELSE [d EXCEPT !.pc = "done", !.exit_code = Some(0)]

\* One statement of run() at c.pc, for the line ln read in the hour hk.
MainStep(c, ln, hk) ==
  LET s == c.self
  IN  CASE c.pc = "L132" -> Goto(c, s, IF Parse(ln).icmp THEN "L133" ELSE "L156")
        [] c.pc = "L133" -> Goto(c, [s EXCEPT !.packets_sent = @ + 1], "L134")
        [] c.pc = "L134" -> Goto(c, [s EXCEPT !.window_sent = @ + 1], "L135")
        [] c.pc = "L135" -> Goto(c, [s EXCEPT !.hourly_stats = BumpSent(@, hk)], "L137")
        [] c.pc = "L137" -> Goto(c, s, IF Parse(ln).time THEN "L138" ELSE "L162")
        [] c.pc = "L138" -> Goto(c, [s EXCEPT !.packets_received = @ + 1], "L139")
        [] c.pc = "L139" -> Goto(c, [s EXCEPT !.window_received = @ + 1], "L140")
        [] c.pc = "L140" -> Goto(c, [s EXCEPT !.hourly_stats = BumpReceived(@, hk)], "L143")
        [] c.pc = "L143" -> Goto(c, s, IF Parse(ln).match THEN "L146" ELSE "L162")
        [] c.pc = "L146" ->
             Goto(c, [s EXCEPT !.latencies = Append(@, Parse(ln).latency)], "L147")
        [] c.pc = "L147" ->
             Goto(c, [s EXCEPT !.window_latencies = Append(@, Parse(ln).latency)],
                  "L148")
        [] c.pc = "L148" ->
             Goto(c, [s EXCEPT !.hourly_stats =
                                  AppendLatency(@, hk, Parse(ln).latency)], "L151")
        [] c.pc = "L151" ->
             Goto(c, [s EXCEPT !.min_latency = NewMin(@, Parse(ln).latency)], "L153")
        [] c.pc = "L153" ->
             Goto(c, [s EXCEPT !.max_latency = NewMax(@, Parse(ln).latency)], "L162")
        [] c.pc = "L156" -> Goto(c, s, IF Parse(ln).timeout THEN "L157" ELSE "L162")
        [] c.pc = "L157" -> Goto(c, [s EXCEPT !.packets_sent = @ + 1], "L158")
        [] c.pc = "L158" -> Goto(c, [s EXCEPT !.window_sent = @ + 1], "L159")
        [] c.pc = "L159" -> Goto(c, [s EXCEPT !.hourly_stats = BumpSent(@, hk)], "L162")
        [] c.pc = "L162" -> Goto(c, s, IF WindowDue(s) THEN "L163" ELSE "L120")
        [] c.pc = "L163" ->
             IF Raises(WindowReport(s).window_loss_pct) THEN Throw(c, "ArithmeticError")
             ELSE Goto(c, s, "L165")
        [] c.pc = "L165" ->
             Goto(c, [s EXCEPT !.max_window_loss_pct =
                                  NewMaxLoss(@, WindowReport(s).window_loss_pct)], "L167")
        [] c.pc = "L167" -> LogWindowReport(c)
        [] c.pc = "L177" -> Goto(c, [s EXCEPT !.window_sent = 0], "L178")
        [] c.pc = "L178" -> Goto(c, [s EXCEPT !.window_received = 0], "L179")
        [] c.pc = "L179" -> Goto(c, [s EXCEPT !.window_latencies = <<>>], "L120")
        [] c.pc = "L182" -> ExceptClause(c)
        [] c.pc = "L184" -> Goto(c, s, "L185")
        [] c.pc = "L185" -> FinallySummary(c)
        [] c.pc = "L186" -> FinallyClose(c)

\* The statements from c.pc until the position reaches one of `stops`.
RECURSIVE RunTo(_, _, _, _)
RunTo(c, ln, hk, stops) ==
  IF c.pc \in stops THEN c ELSE RunTo(MainStep(c, ln, hk), ln, hk, stops)

\* Lines 125-129 for a non-empty line: the timestamped line is logged.
LogLine(c) ==
  LET w == Log(c.self, c.io, [kind |-> "line"])
  IN  IF w.raise # "none" THEN Throw([c EXCEPT !.io = w.io], w.raise)
      ELSE [c EXCEPT !.io = w.io, !.pc = "L132"]

\* Lines 99-109: the log file is opened and the header is logged.
OpenLog(c) ==
  LET s == [c.self EXCEPT !.log_file = "open"]
  IN  [c EXCEPT !.self = s, !.io = Log(s, c.io, [kind |-> "header"]).io, !.pc = "L120"]

-----------------------------------------------------------------------------
(* The state machine.                                                      *)

Config == [self |-> self, io |-> io, pc |-> pc, exc |-> exc, exit_code |-> exit_code]

SetConfig(c) ==
  /\ self' = c.self
  /\ io' = c.io
  /\ pc' = c.pc
  /\ exc' = c.exc
  /\ exit_code' = c.exit_code

\* How the conditions of lines 132, 137 and 156 class a line.
Classify(ln) ==
  IF Parse(ln).icmp THEN (IF Parse(ln).time THEN "Received" ELSE "Lost")
  ELSE IF Parse(ln).timeout THEN "Lost" ELSE "None"

\* The probe event a line stands for: its outcome and the latency recorded.
EventOf(ln) ==
  [ outcome |-> Classify(ln),
    latency |-> IF Classify(ln) = "Received" /\ Parse(ln).match
                THEN Some(Parse(ln).latency) ELSE None ]

\* The history after the line ln has been read.
Seen(ln) == IF Classify(ln) = "None" THEN events ELSE Append(events, EventOf(ln))

\* The state after construction: monitor = PacketLossMonitor(target).
Init ==
  /\ self = NewMonitor
  /\ io = NewIO
  /\ pc = "L99"
  /\ exc = "none"
  /\ exit_code = None
  /\ line = <<>>
  /\ hour_key = 0
  /\ clock = 0
  /\ hpc = <<>>
  /\ sigints = 0
  /\ events = <<>>
  /\ snap = NewMonitor
  /\ ended = "running"
  /\ devs = 0
  /\ nlines = 0

\* Lines 99-117: the handler is installed, the log opened, ping started.
Start ==
  /\ pc = "L99"
  /\ SetConfig(OpenLog(Config))
  /\ UNCHANGED <<line, hour_key, clock, hpc, sigints, events, snap, ended, devs, nlines>>

\* Offsets within a window at which a stream may hold a line that is not plain
\* (the first and the last probe of a window).
EdgeOffsets == {0, WindowSize - 1}

\* One iteration of the read loop, lines 120-179: a line is read in the hour
\* clock + tick and processed to the end.  A plain line is the ordinary reply
\* read in the same hour as the line before it; the streams hold at most
\* MaxDev other lines, each another text or the first line of a new hour.  An
\* exception ends the run through the except clause and the finally block.
ProcessLine ==
  /\ pc = "L120"
  /\ self.packets_sent < MaxSent
  /\ \E raw \in RawLines, tick \in {0, 1} :
        LET plain == raw = ReplyLine /\ tick = 0
            ln    == Strip(raw)
        IN  /\ clock + tick <= MaxHour
            /\ \/ plain
               \/ /\ devs < MaxDev
                  /\ (self.packets_sent % WindowSize) \in EdgeOffsets
                  /\ raw = ReplyLine \/ tick = 0
            /\ devs' = devs + (IF plain THEN 0 ELSE 1)
            /\ clock' = clock + tick
            /\ line' = ln
            /\ nlines' = nlines + 1
            /\ snap' = self
            /\ IF ln = <<>>
               THEN UNCHANGED <<self, io, pc, exc, exit_code, hour_key, events, ended>>
               ELSE /\ hour_key' = clock'
                    /\ events' = Seen(ln)
                    /\ SetConfig(RunTo(LogLine(Config), ln, clock', {"L120", "done"}))
                    /\ ended' = IF pc' = "done" THEN "exception" ELSE ended
  /\ UNCHANGED <<hpc, sigints>>

\* ping's output ends: the loop is left and the finally block runs.
FinishStream ==
  /\ pc = "L120"
  /\ SetConfig(RunTo([Config EXCEPT !.pc = "L184"], line, hour_key, {"done"}))
  /\ ended' = "stream end"
  /\ UNCHANGED <<line, hour_key, clock, hpc, sigints, events, snap, devs, nlines>>

Next == Start \/ ProcessLine \/ FinishStream

Spec == Init /\ [][Next]_vars

-----------------------------------------------------------------------------
(* The same program statement by statement, with SIGINT.  The handler runs *)
(* on the main thread between two statements of run(), or of a handler     *)
(* already running, and the thread goes on only when it has ended; it ends *)
(* by raising SystemExit (or the exception print_summary raised) into the  *)
(* statement that was interrupted.                                         *)

\* The lines of the streams of SpecSig.
SigLines == RawLines

\* Lines 120-129: the next line is read; an empty line is skipped.
ReadLine ==
  /\ pc = "L120"
  /\ hpc = <<>>
  /\ nlines < MaxSigLines
  /\ \E raw \in SigLines, tick \in {0, 1} :
        LET ln == Strip(raw)
        IN  /\ clock + tick <= MaxHour
            /\ clock' = clock + tick
            /\ line' = ln
            /\ nlines' = nlines + 1
            /\ snap' = self
            /\ IF ln = <<>>
               THEN UNCHANGED <<self, io, pc, exc, exit_code, hour_key, events>>
               ELSE /\ hour_key' = clock'
                    /\ events' = Seen(ln)
                    /\ SetConfig(LogLine(Config))
  /\ UNCHANGED <<hpc, sigints, ended, devs>>

\* One statement of the loop body, the except clause or the finally block.
Step ==
  /\ pc \in BodyLabels \cup {"L182"} \cup FinallyLabels
  /\ hpc = <<>>
  /\ SetConfig(MainStep(Config, line, hour_key))
  /\ ended' = IF ended = "running" /\ pc' \notin TryLabels THEN "exception" ELSE ended
  /\ UNCHANGED <<line, hour_key, clock, hpc, sigints, events, snap, devs, nlines>>

\* ping's output ends: the for loop is left.
EndOfStream ==
  /\ pc = "L120"
  /\ hpc = <<>>
  /\ pc' = "L184"
  /\ ended' = "stream end"
  /\ UNCHANGED <<self, io, exc, exit_code, line, hour_key, clock, hpc, sigints,
                 events, snap, devs, nlines>>

\* Reading the next line raises.
ReadError ==
  /\ pc = "L120"
  /\ hpc = <<>>
  /\ SetConfig(Throw(Config, "UnicodeDecodeError"))
  /\ ended' = "exception"
  /\ UNCHANGED <<line, hour_key, clock, hpc, sigints, events, snap, devs, nlines>>

\* SIGINT arrives while run() is in the try statement: signal_handler is called.
Sigint ==
  /\ pc \in TryLabels \cup {"L182"} \cup FinallyLabels
  /\ sigints < MaxSigints
  /\ sigints' = sigints + 1
  /\ hpc' = Append(hpc, "L94")
  /\ ended' = IF ended = "running" THEN "SIGINT" ELSE ended
  /\ UNCHANGED <<self, io, pc, exc, exit_code, line, hour_key, clock,
                 events, snap, devs, nlines>>

\* The innermost running handler goes to statement l.
HandlerGoto(l) == hpc' = [hpc EXCEPT ![Len(hpc)] = l]

\* One statement of signal_handler: print_summary (94), the close (95-96),
\* sys.exit(0) (97).  An exception leaves every running handler, none of which
\* catches it, and reaches run().
HandlerStep ==
  /\ hpc # <<>>
  /\ LET at == hpc[Len(hpc)]
         w  == PrintSummary(self, io)
     IN  CASE at = "L94" ->
                IF w.raise # "none"
                THEN /\ hpc' = <<>>
                     /\ SetConfig(Throw([Config EXCEPT !.self = w.self, !.io = w.io],
                                        w.raise))
                ELSE /\ HandlerGoto("L95")
                     /\ self' = w.self
                     /\ io' = w.io
                     /\ UNCHANGED <<pc, exc, exit_code>>
           [] at = "L95" ->
                /\ HandlerGoto("L97")
                /\ self' = CloseLog(self)
                /\ UNCHANGED <<io, pc, exc, exit_code>>
           [] at = "L97" ->
                /\ hpc' = <<>>
                /\ SetConfig(Throw(Config, "SystemExit"))
  /\ UNCHANGED <<line, hour_key, clock, sigints, events, snap, ended, devs, nlines>>

NextSig ==
  Start \/ ReadLine \/ Step \/ EndOfStream \/ ReadError \/ Sigint \/ HandlerStep

SpecSig == Init /\ [][NextSig]_vars

-----------------------------------------------------------------------------
(* Definitions the properties share.                                       *)

IsReport(e) == e.kind = "report"

IsSummary(e) == e.kind = "summary"

IsError(e) == e.kind = "error"

\* The window reports and the summaries printed so far, in order.
Reports == SelectSeq(io.console, IsReport)

Summaries == SelectSeq(io.console, IsSummary)

\* The number of Received events among events lo..hi of the history.
ReceivedIn(lo, hi) ==
  Cardinality({i \in lo..hi : events[i].outcome = "Received"})

\* The statistics of an object: every attribute but the log file handle.
Stats(s) == [s EXCEPT !.log_file = "None"]

\* No line is being processed: the last line read has been processed in full.
LineDone == pc \in {"L99", "L120", "done"}

-----------------------------------------------------------------------------
(* C1: after each fully processed line, packets_sent is the number of      *)
(* probe lines read so far, packets_received the number of them classed    *)
(* Received, and calculate_loss_percentage is (sent - received) / sent *   *)
(* 100 of those two numbers, 0 when no probe line has been read.           *)

C1_CountersMatchEvents ==
  LineDone =>
    LET n == Len(events)
        r == ReceivedIn(1, n)
        pct == calculate_loss_percentage(self)
    IN  /\ self.packets_sent = n
        /\ self.packets_received = r
        /\ IF n = 0 THEN pct = Zero
           ELSE ~Raises(pct) /\ pct.n * n = (n - r) * 100 * pct.d

\* Both windows have been counted and one probe in them was lost.
C1_Witness ==
  /\ pc = "L120"
  /\ self.packets_sent = 2 * WindowSize
  /\ self.packets_received = 2 * WindowSize - 1

-----------------------------------------------------------------------------
(* C2: window completion fires exactly once per 100 sent probes: after     *)
(* each fully processed line there is one window report per full hundred   *)
(* of packets_sent, the k-th printed when packets_sent was 100 * k, and    *)
(* when packets_sent is a multiple of 100 the window is empty.             *)

C2_OneReportPerWindow ==
  LineDone =>
    /\ Len(Reports) = self.packets_sent \div WindowSize
    /\ \A k \in 1..Len(Reports) : Reports[k].last = WindowSize * k
    /\ self.packets_sent % WindowSize = 0 =>
          /\ self.window_sent = 0
          /\ self.window_received = 0
          /\ self.window_latencies = <<>>

-----------------------------------------------------------------------------
(* C3: whenever print_summary runs, the statistics it reads are those of a *)
(* whole number of processed lines: the object is as it was when the last  *)
(* line was read, or as it is once that line has been processed in full.   *)

\* print_summary is about to run, in the handler or in the finally block.
PrintingSummary ==
  \/ hpc # <<>> /\ hpc[Len(hpc)] = "L94"
  \/ hpc = <<>> /\ pc = "L185"

\* The object once the last line read has been processed in full.
WholeLine ==
  IF line = <<>> THEN snap
  ELSE RunTo([Config EXCEPT !.self = snap, !.pc = "L132", !.exc = "none"],
             line, hour_key, {"L120", "L182", "L184", "done"}).self

C3_SummarySeesWholeLines ==
  PrintingSummary => Stats(self) \in {Stats(snap), Stats(WholeLine)}

-----------------------------------------------------------------------------
(* C6: however the read loop ends (end of the stream, an exception, a      *)
(* SIGINT), when the process has ended the summary has been printed and    *)
(* the log file is closed; when the loop ended by an exception and no      *)
(* SIGINT arrived, the error notice was printed before the summary.        *)

\* Entry i of the console is the first of its kind.
FirstOf(kind(_), i) ==
  /\ i \in 1..Len(io.console)
  /\ kind(io.console[i])
  /\ \A j \in 1..(i - 1) : ~kind(io.console[j])

C6_SummaryAndCloseOnEveryExit ==
  pc = "done" =>
    /\ Summaries # <<>>
    /\ self.log_file = "closed"
    /\ (ended = "exception" /\ sigints = 0) =>
          \E i, j \in 1..Len(io.console) :
             i < j /\ FirstOf(IsError, i) /\ FirstOf(IsSummary, j)

\* The process has ended after a SIGINT in the read loop.
C6_Witness ==
  /\ pc = "done"
  /\ ended = "SIGINT"
  /\ Summaries # <<>>
  /\ self.log_file = "closed"

-----------------------------------------------------------------------------
(* C7: when SIGINT arrives while run() is in its read loop, the process    *)
(* ends with exit code 0.                                                  *)

C7_SigintExitsZero ==
  (pc = "done" /\ ended = "SIGINT") => exit_code = Some(0)

-----------------------------------------------------------------------------
(* C4: max_window_loss_pct is 0 until a window completes, never decreases, *)
(* and after every fully processed line is the largest loss percentage     *)
(* among the windows completed so far (window k is probe events            *)
(* 100 * (k - 1) + 1 .. 100 * k of the history).                           *)

\* The windows completed so far.
Completed == 1..(Len(events) \div WindowSize)

\* The loss percentage of completed window k.
LossOfWindow(k) ==
  Rat((WindowSize - ReceivedIn(WindowSize * (k - 1) + 1, WindowSize * k)) * 100,
      WindowSize)

MaxLossIsMaxOverWindows ==
  LineDone =>
    IF Completed = {} THEN self.max_window_loss_pct = Zero
    ELSE /\ \E k \in Completed : RatEq(self.max_window_loss_pct, LossOfWindow(k))
         /\ \A k \in Completed : ~RatLess(self.max_window_loss_pct, LossOfWindow(k))

MaxLossNeverDecreases ==
  ~RatLess(self'.max_window_loss_pct, self.max_window_loss_pct)

C4_MaxWindowLoss == [](MaxLossIsMaxOverWindows) /\ [][MaxLossNeverDecreases]_vars

\* Two windows are complete, the first with a loss and the second without:
\* the maximum is still the first window's.
C4_Witness ==
  /\ pc = "L120"
  /\ Len(Reports) = 2
  /\ RatLess(Zero, Reports[1].window_loss_pct)
  /\ RatEq(Zero, Reports[2].window_loss_pct)
  /\ RatEq(self.max_window_loss_pct, Reports[1].window_loss_pct)

-----------------------------------------------------------------------------
(* C5: after every fully processed line there are as many latency samples  *)
(* as received packets, in the cumulative state and in every hourly        *)
(* bucket, and every bucket has sent >= received >= 0.                     *)

C5_OneSamplePerReceived ==
  LineDone =>
    /\ Len(self.latencies) = self.packets_received
    /\ \A h \in DOMAIN self.hourly_stats :
          LET bucket == self.hourly_stats[h]
          IN  /\ Len(bucket.latencies) = bucket.received
              /\ bucket.sent >= bucket.received
              /\ bucket.received >= 0

-----------------------------------------------------------------------------
(* C8: every line is counted as the parsing contract says: a line with     *)
(* icmp_seq is one sent probe, Received with its latency recorded iff it   *)
(* holds time= or `time ` followed by a number and ms, else Lost; a line   *)
(* without icmp_seq that holds timeout in any case is one sent probe,      *)
(* Lost; any other line is no probe.                                       *)

\* The outcome the contract gives a line.
ContractOutcome(ln) ==
  IF In(ICMP_SEQ, ln)
  THEN (IF ReSearch(ln) # None THEN "Received" ELSE "Lost")
  ELSE IF In(TIMEOUT, Lower(ln)) THEN "Lost" ELSE "None"

C8_CountedPerContract ==
  (pc = "L120" /\ nlines > 0) =>
    LET o == ContractOutcome(line)
    IN  /\ self.packets_sent = snap.packets_sent + (IF o = "None" THEN 0 ELSE 1)
        /\ self.packets_received =
             snap.packets_received + (IF o = "Received" THEN 1 ELSE 0)
        /\ self.latencies =
             IF o = "Received" THEN Append(snap.latencies, Float(ReSearch(line)[1]))
             ELSE snap.latencies

-----------------------------------------------------------------------------
(* C9: a line that holds neither icmp_seq nor timeout leaves every         *)
(* statistic as it was, also when packets_sent is a multiple of 100.       *)

\* The line holds neither icmp_seq nor timeout (in any case).
NoProbeText(ln) == ~In(ICMP_SEQ, ln) /\ ~In(TIMEOUT, Lower(ln))

C9_NonProbeLineChangesNothing ==
  (pc = "L120" /\ nlines > 0 /\ NoProbeText(line)) => Stats(self) = Stats(snap)

\* The banner has been read right after the hundredth probe.
C9_Witness ==
  /\ pc = "L120"
  /\ line = Strip(HeaderLine)
  /\ self.packets_sent = WindowSize
  /\ Stats(self) = Stats(snap)

-----------------------------------------------------------------------------
(* C10: no statistic divides by zero or raises: in the summary, the window *)
(* report and every hourly bucket the loss is 0 when nothing was sent, the *)
(* average 0 without samples and the jitter 0 with fewer than 2 samples;   *)
(* with no event the summary shows 0 sent, 0 received, loss, average and   *)
(* jitter 0 and no minimum or maximum.                                     *)

\* The summary m of object s follows the zero policy.
SummaryDefined(s, m) ==
  /\ ~SummaryRaises(m)
  /\ (s.packets_sent = 0 => m.loss_pct = Zero)
  /\ (s.latencies = <<>> => m.avg_latency = Zero)
  /\ (Len(s.latencies) < 2 => m.jitter = Zero)
  /\ \A i \in 1..Len(m.hourly) :
        LET bucket == s.hourly_stats[m.hourly[i].hour]
        IN  /\ (bucket.sent = 0 => m.hourly[i].loss = Zero)
            /\ (bucket.latencies = <<>> => m.hourly[i].avg_lat = Zero)
            /\ (Len(bucket.latencies) < 2 => m.hourly[i].hour_jitter = Zero)

\* The window report r of object s follows the zero policy.
ReportDefined(s, r) ==
  /\ ~ReportRaises(r)
  /\ (s.window_sent = 0 => r.window_loss_pct = Zero)
  /\ (s.window_latencies = <<>> => r.window_avg_latency = Zero)
  /\ (Len(s.window_latencies) < 2 => r.window_jitter = Zero)

\* What was printed holds no undefined value, and no arithmetic error was
\* caught or propagated.
PrintedDefined ==
  /\ exc # "ArithmeticError"
  /\ \A i \in 1..Len(io.console) :
        LET e == io.console[i]
        IN  /\ IsReport(e) => ~ReportRaises(e) /\ (e.window_sent = 0 => e.window_loss_pct = Zero)
            /\ IsSummary(e) => ~SummaryRaises(e) /\ (e.sent = 0 => e.loss_pct = Zero)
            /\ IsError(e) => e.what # "ArithmeticError"

C10_StatisticsNeverRaise ==
  /\ SummaryDefined(self, Summary(self))
  /\ ReportDefined(self, WindowReport(self))
  /\ PrintedDefined
  /\ (events = <<>> =>
        LET m == Summary(self)
        IN  /\ m.sent = 0 /\ m.received = 0
            /\ m.loss_pct = Zero /\ m.avg_latency = Zero /\ m.jitter = Zero
            /\ m.min_latency = None /\ m.max_latency = None)

\* The stream ended with no probe event and the summary was printed.
C10_Witness ==
  /\ pc = "done"
  /\ events = <<>>
  /\ Len(Summaries) = 1
  /\ Summaries[1].sent = 0
  /\ Summaries[1].loss_pct = Zero
  /\ Summaries[1].min_latency = None

-----------------------------------------------------------------------------
(* C11: for any interleaving of Received and Lost events, the window       *)
(* report printed on the 100 * k-th sent probe shows packets               *)
(* 100 * (k - 1) + 1 to 100 * k, 100 sent, as many lost as events of that  *)
(* range are not Received, that number as the loss percentage, and the     *)
(* mean and the deviation of the latencies of exactly those events.        *)

\* The latencies recorded for probe events lo..hi of the history, in order.
LatenciesIn(lo, hi) ==
  LET evs == SelectSeq(SubSeq(events, lo, hi), LAMBDA e : e.latency # None)
  IN  [i \in 1..Len(evs) |-> evs[i].latency[1]]

\* The line just processed was the probe that made packets_sent a multiple
\* of 100.
WindowJustCompleted ==
  /\ pc = "L120"
  /\ self.packets_sent # snap.packets_sent
  /\ self.packets_sent % WindowSize = 0

C11_WindowReportCountsItsWindow ==
  WindowJustCompleted =>
    /\ Reports # <<>>
    /\ LET k   == self.packets_sent \div WindowSize
           lo  == WindowSize * (k - 1) + 1
           hi  == WindowSize * k
           r   == Reports[Len(Reports)]
           rcv == ReceivedIn(lo, hi)
           lat == LatenciesIn(lo, hi)
       IN  /\ r.first = lo
           /\ r.last = hi
           /\ r.window_sent = WindowSize
           /\ r.window_lost = WindowSize - rcv
           /\ RatEq(r.window_loss_pct, Rat(WindowSize - rcv, 1))
           /\ RatEq(r.window_avg_latency, IF lat = <<>> THEN Zero ELSE Mean(lat))
           /\ RatEq(r.window_jitter, IF Len(lat) > 1 THEN Stdev(lat) ELSE Zero)

\* The second window has completed with one probe lost among its hundred:
\* the report shows 1 lost of 100, the first window's report none.
C11_Witness ==
  /\ WindowJustCompleted
  /\ self.packets_sent = 2 * WindowSize
  /\ Len(Reports) = 2
  /\ Reports[2].window_lost = 1
  /\ Reports[2].window_sent = WindowSize
  /\ Reports[1].window_lost = 0

-----------------------------------------------------------------------------
(* C12: after every fully processed line min_latency and max_latency are   *)
(* None exactly when packets_received is 0; otherwise they are the least   *)
(* and the greatest of the latencies recorded so far.                      *)

\* x is the least (greatest) element of the sequence xs.
IsMinOf(x, xs) == (\E i \in 1..Len(xs) : xs[i] = x) /\ (\A i \in 1..Len(xs) : x <= xs[i])

IsMaxOf(x, xs) == (\E i \in 1..Len(xs) : xs[i] = x) /\ (\A i \in 1..Len(xs) : x >= xs[i])

C12_ExtremaOfLatencies ==
  LineDone =>
    IF self.packets_received = 0
    THEN self.min_latency = None /\ self.max_latency = None
    ELSE /\ self.min_latency # None
         /\ self.max_latency # None
         /\ IsMinOf(self.min_latency[1], self.latencies)
         /\ IsMaxOf(self.max_latency[1], self.latencies)

-----------------------------------------------------------------------------
(* C13: 0 <= window_received <= window_sent <= 100 in every state of the   *)
(* read loop: between two lines, and between two statements of the loop    *)
(* body other than the three assignments of lines 177-179 that reset the   *)
(* window, which set window_sent to 0 before window_received.              *)

\* The configurations from c until the position reaches one of `stops`, one
\* per statement.
RECURSIVE Along(_, _, _, _)
Along(c, ln, hk, stops) ==
  IF c.pc \in stops THEN {c}
  ELSE {c} \cup Along(MainStep(c, ln, hk), ln, hk, stops)

\* The configurations the loop body went through while it processed the last
\* line read, and the configuration now.
BodyConfigs ==
  {Config} \cup
    (IF line = <<>> THEN {}
     ELSE Along([Config EXCEPT !.self = snap, !.pc = "L132", !.exc = "none"],
                line, hour_key, {"L120", "L182", "L184", "done"}))

\* The positions between the assignments of the reset of lines 177-179.
InReset == {"L178", "L179"}

WindowBounded(s) ==
  /\ 0 <= s.window_received
  /\ s.window_received <= s.window_sent
  /\ s.window_sent <= WindowSize

C13_WindowCountersBounded ==
  \A c \in BodyConfigs : c.pc \notin InReset => WindowBounded(c.self)

\* The claim as it is worded: in every state, the states between the
\* assignments of the reset included.
C13_BoundedInEveryState ==
  \A c \in BodyConfigs : WindowBounded(c.self)

\* The hundredth probe of a window has been counted and the window holds a
\* lost probe: the counters stood at 99 of 100 when the report was made.
C13_Witness ==
  /\ pc = "L120"
  /\ self.window_sent = 0
  /\ \E c \in BodyConfigs :
        /\ c.pc = "L177"
        /\ c.self.window_sent = WindowSize
        /\ c.self.window_received = WindowSize - 1

-----------------------------------------------------------------------------
(* C14: print_summary only reads the statistics: in any state a call       *)
(* leaves every attribute of the object as it was, creates no hourly       *)
(* bucket, and a second call right after it prints the same values; the    *)
(* summary the finally block prints leaves the statistics of the run       *)
(* unchanged and shows the values a further call would show.               *)

\* print_summary called twice in this state changes nothing and prints the
\* same summary twice.
SummaryReadOnly ==
  LET w1 == PrintSummary(self, io)
      w2 == PrintSummary(w1.self, w1.io)
      n  == Len(io.console)
  IN  /\ w1.self = self
      /\ w2.self = self
      /\ DOMAIN w1.self.hourly_stats = DOMAIN self.hourly_stats
      /\ Len(w1.io.console) = n + 1
      /\ Len(w2.io.console) = n + 2
      /\ w2.io.console[n + 1] = w2.io.console[n + 2]
      /\ (pc = "done" /\ Summaries # <<>>) =>
             w1.io.console[n + 1] = Summaries[Len(Summaries)]

\* The step that ends the run, in which print_summary is called, leaves the
\* statistics as they were.
FinalSummaryKeepsStats ==
  (pc # "done" /\ pc' = "done") => Stats(self') = Stats(self)

C14_SummaryReadOnly == [](SummaryReadOnly) /\ [][FinalSummaryKeepsStats]_vars

\* The summary has been printed at the end of a stream that spans two hours:
\* it shows both buckets, and printing it made no third.
C14_Witness ==
  /\ pc = "done"
  /\ Len(Summaries) = 1
  /\ Len(Summaries[1].hourly) = 2
  /\ DOMAIN self.hourly_stats = {0, 1}
  /\ Summaries[1] = Summary(self)

-----------------------------------------------------------------------------
(* C15: on every exit path (end of the stream, an exception in the read    *)
(* loop, SIGINT) the shutdown runs once: when the process has ended the    *)
(* summary has been printed exactly one time.                              *)

C15_OneSummaryPerRun ==
  pc = "done" => Len(Summaries) = 1

-----------------------------------------------------------------------------
(* C16: whenever the window report block runs, window_sent is 100: every   *)
(* window report printed was made over a full window, none over an empty   *)
(* one.                                                                    *)

C16_ReportsOverFullWindows ==
  \A k \in 1..Len(Reports) : Reports[k].window_sent = WindowSize

-----------------------------------------------------------------------------
(* C19: no write to the log file is attempted once it has been closed: on  *)
(* every exit path, SIGINT followed by the finally block included, each    *)
(* log_file.write of log and print_summary finds the file open.            *)

C19_NoWriteAfterClose ==
  io.bad_writes = 0

-----------------------------------------------------------------------------
(* C17: after every fully processed line window_sent is packets_sent mod   *)
(* 100 and window_received is the number of Received events among the last *)
(* window_sent probe events; when a probe brings packets_sent to a         *)
(* multiple of 100, the window the report is made over holds 100 probes.   *)

WindowTracksCumulative ==
  LineDone =>
    /\ self.window_sent = self.packets_sent % WindowSize
    /\ self.window_received =
         ReceivedIn(Len(events) - self.window_sent + 1, Len(events))

\* The report made on a probe line is made over a full window.
RolloverOnFullWindow ==
  \A c \in BodyConfigs :
     (c.pc = "L163" /\ c.self.packets_sent # snap.packets_sent) =>
        c.self.window_sent = WindowSize

-----------------------------------------------------------------------------
(* C18: after every fully processed line the hourly buckets partition the  *)
(* totals: their sent counts add up to packets_sent, their received counts *)
(* to packets_received and their latency samples to len(latencies); a line *)
(* changes no bucket but that of its hour key, and no bucket is ever       *)
(* removed or reset.                                                       *)

\* The sum of the values of a function with a finite domain.
RECURSIVE SumOf(_)
SumOf(f) ==
  IF DOMAIN f = {} THEN 0
  ELSE LET k == CHOOSE x \in DOMAIN f : TRUE
       IN  f[k] + SumOf([x \in DOMAIN f \ {k} |-> f[x]])

HourlyPartition ==
  LineDone =>
    LET hs == self.hourly_stats
    IN  /\ SumOf([h \in DOMAIN hs |-> hs[h].sent]) = self.packets_sent
        /\ SumOf([h \in DOMAIN hs |-> hs[h].received]) = self.packets_received
        /\ SumOf([h \in DOMAIN hs |-> Len(hs[h].latencies)]) = Len(self.latencies)

\* xs is the beginning of ys.
IsPrefix(xs, ys) == Len(xs) <= Len(ys) /\ xs = SubSeq(ys, 1, Len(xs))

\* A step keeps every bucket, lets none shrink and changes or creates at most
\* the bucket of the hour key of the line it processed.
BucketsOnlyGrow ==
  LET old == self.hourly_stats
      new == self'.hourly_stats
  IN  /\ \A h \in DOMAIN old :
            /\ h \in DOMAIN new
            /\ old[h].sent <= new[h].sent
            /\ old[h].received <= new[h].received
            /\ IsPrefix(old[h].latencies, new[h].latencies)
      /\ \A h \in DOMAIN new :
            (h \notin DOMAIN old \/ new[h] # old[h]) => h = hour_key'

C18_HourlyPartition == [](HourlyPartition) /\ [][BucketsOnlyGrow]_vars

\* Probes were counted in two hours: each hour has its bucket, and the first
\* hour's bucket still holds its hundred.
C18_Witness ==
  /\ pc = "L120"
  /\ DOMAIN self.hourly_stats = {0, 1}
  /\ self.hourly_stats[0].sent = WindowSize
  /\ self.hourly_stats[1].sent = WindowSize
  /\ self.packets_sent = 2 * WindowSize

====
